---- MODULE Spec2Model ----
(***************************************************************************)
(* A model of the dock FTP server: the acceptor (server.rs), the session   *)
(* loop and its command handlers (session.rs), the command lexicon         *)
(* (commands.rs) and the user table (config.rs).                           *)
(*                                                                         *)
(* Strings are sequences of tokens: a token is a word ("USER", "alice",    *)
(* "sub", "127"), a separator (" ", ",", "/") or a line end ("\r\n").      *)
(* Splitting, trimming and parsing work on these sequences.  Option<T> is  *)
(* a sequence of length 0 (None) or 1 (Some).                              *)
(***************************************************************************)
EXTENDS Naturals, Integers, Sequences, FiniteSets, TLC

\* ------------------------------------------------------------------ bounds

\* Largest numeric argument the client sends with REST.
MaxRest == 2
\* Longest logical current_dir (in components) a session is driven to.
MaxDepth == 1
\* Most files the clients add to the filesystem.
MaxNewFiles == 1
\* Most lines a client writes on its control connection when its writes run
\* ahead of the server's reads.
MaxSends == 5

\* --------------------------------------------------------------- sessions

SessionIds == {1, 2}

None == <<>>
Some(x) == <<x>>

\* ----------------------------------------------------------------- config

\* config.json: the user table and the root, as load_config reads them.
users ==
  << [name |-> <<"alice">>, password |-> <<"pa">>, permissions |-> "All"],
     [name |-> <<"bob">>,   password |-> <<"pb">>, permissions |-> "Read"],
     [name |-> <<"carol">>, password |-> <<"pc">>, permissions |-> "Write"] >>

\* load_config: users_map is keyed by name, a later entry replacing an earlier.
users_map ==
  [n \in {users[i].name : i \in 1..Len(users)} |->
     LET last == CHOOSE i \in 1..Len(users) :
                   /\ users[i].name = n
                   /\ \A j \in 1..Len(users) : users[j].name = n => j <= i
     IN users[last]]

\* config.root, as the components of an absolute path.
root == <<<<"srv">>>>

check_user(uname) ==
  IF DOMAIN users_map # {}
    THEN uname \in DOMAIN users_map
    ELSE \E i \in 1..Len(users) : users[i].name = uname

check_password_NameOnly(uname, password) ==
  IF DOMAIN users_map # {}
    THEN uname \in DOMAIN users_map
    ELSE \E i \in 1..Len(users) : users[i].name = uname

check_password(uname, password) ==
  IF DOMAIN users_map # {}
    THEN IF uname \in DOMAIN users_map
           THEN users_map[uname].password = password
           ELSE FALSE
    ELSE \E i \in 1..Len(users) :
           users[i].name = uname /\ users[i].password = password

can_user_write_AsRead(uname) ==
  IF uname \in DOMAIN users_map
    THEN users_map[uname].permissions = "Read" \/ users_map[uname].permissions = "All"
    ELSE FALSE

can_user_write(uname) ==
  IF uname \in DOMAIN users_map
    THEN users_map[uname].permissions = "Write" \/ users_map[uname].permissions = "All"
    ELSE FALSE

can_user_read(uname) ==
  IF uname \in DOMAIN users_map
    THEN users_map[uname].permissions = "Read" \/ users_map[uname].permissions = "All"
    ELSE FALSE

\* ---------------------------------------------------------------- lexicon

\* impl From<String> for Commands: the verb is one string, matched exactly.
CommandsFrom(val) ==
  IF Len(val) # 1 THEN "Unknown"
  ELSE CASE val[1] = "USER" -> "User"
         [] val[1] = "PASS" -> "Password"
         [] val[1] \in {"PWD", "XPWD"} -> "WorkingDir"
         [] val[1] = "CWD" -> "ChangeDir"
         [] val[1] = "CDUP" -> "ChangeDirectoryUp"
         [] val[1] = "OPTS" -> "Option"
         [] val[1] \in {"LIST", "NLST", "MLST", "MLSD"} -> "List"
         [] val[1] = "PORT" -> "Port"
         [] val[1] = "REST" -> "Rest"
         [] val[1] = "PASV" -> "Passive"
         [] val[1] = "RETR" -> "Retrive"
         [] val[1] = "STOR" -> "Store"
         [] val[1] = "SIZE" -> "Size"
         [] val[1] = "SYST" -> "System"
         [] val[1] = "TYPE" -> "Type"
         [] val[1] = "FEAT" -> "Features"
         [] val[1] = "QUIT" -> "Quit"
         [] OTHER -> "Unknown"

\* ------------------------------------------------------------------ lines

Whitespace == {" ", "\r\n", "\r", "\n", "\t"}

RECURSIVE TrimEnd(_)
\* str::trim_end
TrimEnd(str) ==
  IF str # <<>> /\ str[Len(str)] \in Whitespace
    THEN TrimEnd(SubSeq(str, 1, Len(str) - 1))
    ELSE str

RECURSIVE TrimStart(_)
\* str::trim (its leading half; with TrimEnd, str::trim)
TrimStart(str) ==
  IF str # <<>> /\ str[1] \in Whitespace THEN TrimStart(Tail(str)) ELSE str

Trim(str) == TrimStart(TrimEnd(str))

\* The index of the first token of str equal to sep, 0 when there is none.
IndexOf(str, sep) ==
  IF \E i \in 1..Len(str) : str[i] = sep
    THEN CHOOSE i \in 1..Len(str) :
           str[i] = sep /\ \A j \in 1..(i - 1) : str[j] # sep
    ELSE 0

RECURSIVE Split(_, _)
\* str::split(sep): always at least one part, possibly empty.
Split(str, sep) ==
  LET i == IndexOf(str, sep) IN
  IF i = 0 THEN <<str>>
  ELSE <<SubSeq(str, 1, i - 1)>> \o Split(SubSeq(str, i + 1, Len(str)), sep)

\* Session::split_data: trim_end, then splitn(2, ' ').  splitn yields at least
\* one part (the empty string for an empty line), so the result is never None.
split_data(data) ==
  LET trimmed == TrimEnd(data)
      i == IndexOf(trimmed, " ")
      splitted == IF i = 0 THEN <<trimmed>>
                  ELSE <<SubSeq(trimmed, 1, i - 1), SubSeq(trimmed, i + 1, Len(trimmed))>>
  IN IF splitted = <<>> THEN None
     ELSE Some([command |-> splitted[1],
                arg |-> IF Len(splitted) > 1 THEN splitted[Len(splitted)] ELSE <<>>])

\* ---------------------------------------------------------------- numbers

\* The decimal numerals of the model's alphabet and their values: what
\* str::parse::<usize>() and str::parse::<u64>() accept.  Every other string
\* ("abc", "-1", "") is a parse error.
Decimal ==
  [t \in {"0", "1", "2", "3", "4", "127", "255", "256"} |->
     CASE t = "0" -> 0 [] t = "1" -> 1 [] t = "2" -> 2 [] t = "3" -> 3
       [] t = "4" -> 4 [] t = "127" -> 127 [] t = "255" -> 255 [] t = "256" -> 256]

\* str::parse for an unsigned integer: Some(value), or None for Err.
parse(str) ==
  IF Len(str) = 1 /\ str[1] \in DOMAIN Decimal THEN Some(Decimal[str[1]]) ELSE None

\* ------------------------------------------------------------------ paths

\* A path is the sequence of its components, each a string; every path of the
\* model is absolute.  Path::new(s) / PathBuf::from(s): the components of s.
RECURSIVE NonEmpty(_)
NonEmpty(parts) ==
  IF parts = <<>> THEN <<>>
  ELSE IF Head(parts) = <<>> THEN NonEmpty(Tail(parts))
  ELSE <<Head(parts)>> \o NonEmpty(Tail(parts))

Components(str) == NonEmpty(Split(str, "/"))

is_absolute(str) == str # <<>> /\ str[1] = "/"

\* PathBuf::join: an absolute argument replaces the base.
join(base, str) ==
  IF is_absolute(str) THEN Components(str) ELSE base \o Components(str)

\* Path::parent: the path without its last component, None at the root.
parent(path) ==
  IF path = <<>> THEN None ELSE Some(SubSeq(path, 1, Len(path) - 1))

DotDot == <<"..">>
Dot == <<".">>

\* to_string_lossy, trim_start_matches("/"), and the join with config.root
\* (lines 257-259, 292-294, 380-382, 615-618): the logical path re-rooted.
real_path_of(logical) == root \o logical

RECURSIVE Normalize(_, _)
\* Lexical normalization of an absolute path: "." dropped, ".." pops and
\* stays at "/" when there is nothing to pop.
Normalize(done, rest) ==
  IF rest = <<>> THEN done
  ELSE IF Head(rest) = Dot THEN Normalize(done, Tail(rest))
  ELSE IF Head(rest) = DotDot
    THEN Normalize(IF done = <<>> THEN <<>> ELSE SubSeq(done, 1, Len(done) - 1), Tail(rest))
  ELSE Normalize(Append(done, Head(rest)), Tail(rest))

IsPrefix(p, q) == Len(p) <= Len(q) /\ SubSeq(q, 1, Len(p)) = p

\* The path lies lexically under config.root after normalization.
UnderRoot(path) == IsPrefix(root, Normalize(<<>>, path))

\* ------------------------------------------------------------- filesystem

\* The server's filesystem: the directories and the regular files with their
\* bytes.  "/" holds the root "/srv" and a file "/secret" outside it.
InitFs ==
  [dirs  |-> {<<>>, <<<<"srv">>>>, <<<<"srv">>, <<"sub">>>>},
   files |-> (<<<<"srv">>, <<"f">>>> :> <<1, 2>>) @@ (<<<<"secret">>>> :> <<9>>)]

RECURSIVE Walk(_, _, _)
\* The operating system's path resolution from directory cur: Some(node), or
\* None when a component is missing or is looked up in a non-directory.
Walk(f, cur, rest) ==
  IF rest = <<>> THEN Some(cur)
  ELSE IF cur \notin f.dirs THEN None
  ELSE IF Head(rest) = Dot THEN Walk(f, cur, Tail(rest))
  ELSE IF Head(rest) = DotDot
    THEN Walk(f, IF cur = <<>> THEN <<>> ELSE SubSeq(cur, 1, Len(cur) - 1), Tail(rest))
  ELSE IF Append(cur, Head(rest)) \in f.dirs \cup DOMAIN f.files
    THEN Walk(f, Append(cur, Head(rest)), Tail(rest))
  ELSE None

exists(f, path) == Walk(f, <<>>, path) # None
is_dir_AnyExisting(f, path) == Walk(f, <<>>, path) # None
is_dir(f, path) == exists(f, path) /\ Walk(f, <<>>, path)[1] \in f.dirs
is_file(f, path) == exists(f, path) /\ Walk(f, <<>>, path)[1] \in DOMAIN f.files

RECURSIVE MkdirAll(_, _, _)
\* fs::create_dir_all: every missing directory on the way is created; None
\* when a component is a regular file.
MkdirAll(f, cur, rest) ==
  IF rest = <<>> THEN Some(f)
  ELSE IF cur \in DOMAIN f.files THEN None
  ELSE IF Head(rest) = Dot THEN MkdirAll(f, cur, Tail(rest))
  ELSE IF Head(rest) = DotDot
    THEN MkdirAll(f, IF cur = <<>> THEN <<>> ELSE SubSeq(cur, 1, Len(cur) - 1), Tail(rest))
  ELSE IF Append(cur, Head(rest)) \in DOMAIN f.files THEN None
  ELSE MkdirAll([f EXCEPT !.dirs = @ \cup {Append(cur, Head(rest))}],
                Append(cur, Head(rest)), Tail(rest))

create_dir_all(f, path) == MkdirAll(f, <<>>, path)

FileCreate_KeepsContent(f, path) ==
  IF path = <<>> \/ path[Len(path)] \in {Dot, DotDot} THEN None
  ELSE LET dir == Walk(f, <<>>, SubSeq(path, 1, Len(path) - 1)) IN
       IF dir = None \/ dir[1] \notin f.dirs THEN None
       ELSE LET target == Append(dir[1], path[Len(path)]) IN
            IF target \in f.dirs THEN None
            ELSE Some([node |-> target,
                       fs |-> [f EXCEPT !.files = @ @@ (target :> <<>>)]])

\* File::create: the file is created, or truncated when it exists; None when
\* the parent is missing or the path names a directory.
FileCreate(f, path) ==
  IF path = <<>> \/ path[Len(path)] \in {Dot, DotDot} THEN None
  ELSE LET dir == Walk(f, <<>>, SubSeq(path, 1, Len(path) - 1)) IN
       IF dir = None \/ dir[1] \notin f.dirs THEN None
       ELSE LET target == Append(dir[1], path[Len(path)]) IN
            IF target \in f.dirs THEN None
            ELSE Some([node |-> target,
                       fs |-> [f EXCEPT !.files = (target :> <<>>) @@ @]])

\* read_dir: the entries of a directory with what metadata reports for each.
read_dir(f, dir) ==
  {[name |-> p[Len(p)], is_dir |-> p \in f.dirs,
    size |-> IF p \in DOMAIN f.files THEN Len(f.files[p]) ELSE 0] :
     p \in {q \in f.dirs \cup DOMAIN f.files :
              q # <<>> /\ SubSeq(q, 1, Len(q) - 1) = dir}}

\* ---------------------------------------------------------------- session

\* Session::new
NewSession ==
  [username |-> <<>>, authorized |-> FALSE, current_dir |-> <<>>,
   rest_offset |-> 0, active_addr |-> None, passive_listener |-> None]

SERVER_FEATURES == <<"UTF8", "MLST type*;size*;modify*;perm*;", "PASV", "PORT">>
DISALLOWED_FILENAMES == {DotDot, Dot}

\* Session::reply: one line "<code> <message>\r\n" on the control connection;
\* val carries the formatted part of the message.  The control connection's
\* write_all is taken to succeed.
Reply(code, message) == [code |-> code, text |-> message, val |-> <<>>]
ReplyWith(code, message, val) == [code |-> code, text |-> message, val |-> val]
\* Session::reply_without_code: a line with no numeric code (code 0 here).
reply_without_code(message) == [code |-> 0, text |-> message, val |-> <<>>]

\* What one call of handle_command leaves behind: the session and the
\* filesystem after it, the replies written, the Result it returns ("Ok", a
\* ConnectionError, or "Panic" when it unwinds), and its traffic: the bytes sent
\* on the data connection, whether a data connection was opened, the physical
\* paths handed to the filesystem, the entries listed, the bytes the peer wrote
\* on the data connection.
Outcome(sess, f, replies, result) ==
  [sess |-> sess, fs |-> f, replies |-> replies, result |-> result,
   sent |-> <<>>, opened |-> FALSE, probed |-> {}, listed |-> {}, uploaded |-> <<>>]

require_authorization_Never(sess) == FALSE

\* macro require_authorization, its condition: the handler returns early.
require_authorization(sess) == ~sess.authorized

LoginRequired_WrongCode(sess, f) ==
  Outcome(sess, f, <<Reply(550, "Login is required.")>>, "Ok")

\* macro require_authorization, its body: the 530 reply and the early return.
LoginRequired(sess, f) ==
  Outcome(sess, f, <<Reply(530, "Login is required.")>>, "Ok")

\* Session::get_real_path
get_real_path(sess) == real_path_of(sess.current_dir)

open_data_connection_Unarmed(sess, net) ==
  IF sess.active_addr # None
    THEN [sess |-> [sess EXCEPT !.active_addr = None], ok |-> net = "ok"]
  ELSE [sess |-> [sess EXCEPT !.passive_listener = None], ok |-> net = "ok"]

\* Session::open_data_connection.  net is what the network does with the dial
\* or the accept: "ok", or "fail" (an error or the 10 s timeout).
open_data_connection(sess, net) ==
  IF sess.active_addr # None
    THEN [sess |-> [sess EXCEPT !.active_addr = None], ok |-> net = "ok"]
  ELSE IF sess.passive_listener # None
    THEN [sess |-> [sess EXCEPT !.passive_listener = None], ok |-> net = "ok"]
  ELSE [sess |-> sess, ok |-> FALSE]

\* io::copy: the bytes that reach the writer.  copy is None when the copy runs
\* to the end of the reader, or Some(the number of bytes moved before the I/O
\* error).
Copied_DropsLast(bytes, copy) ==
  IF bytes = <<>> THEN bytes ELSE SubSeq(bytes, 1, Len(bytes) - 1)

Copied(bytes, copy) ==
  IF copy = None \/ copy[1] >= Len(bytes) THEN bytes ELSE SubSeq(bytes, 1, copy[1])

CopyFailed(copy) == copy # None

HandleUser_ClearsOnReject(sess, f, arg) ==
  IF sess.authorized THEN Outcome(sess, f, <<Reply(230, "Already logged in.")>>, "Ok")
  ELSE IF arg = <<>>
    THEN Outcome([sess EXCEPT !.username = <<>>], f,
                 <<Reply(501, "Username is required.")>>, "Ok")
  ELSE IF ~check_user(arg)
    THEN Outcome([sess EXCEPT !.username = <<>>], f,
                 <<Reply(530, "Authorization failed.")>>, "Ok")
  ELSE Outcome([sess EXCEPT !.username = arg], f,
               <<Reply(331, "Password is required")>>, "Ok")

HandleUser_NoStickyCheck(sess, f, arg) ==
  IF arg = <<>> THEN Outcome(sess, f, <<Reply(501, "Username is required.")>>, "Ok")
  ELSE IF ~check_user(arg) THEN Outcome(sess, f, <<Reply(530, "Authorization failed.")>>, "Ok")
  ELSE Outcome([sess EXCEPT !.username = arg], f,
               <<Reply(331, "Password is required")>>, "Ok")

\* Commands::User
HandleUser(sess, f, arg) ==
  IF sess.authorized THEN Outcome(sess, f, <<Reply(230, "Already logged in.")>>, "Ok")
  ELSE IF arg = <<>> THEN Outcome(sess, f, <<Reply(501, "Username is required.")>>, "Ok")
  ELSE IF ~check_user(arg) THEN Outcome(sess, f, <<Reply(530, "Authorization failed.")>>, "Ok")
  ELSE Outcome([sess EXCEPT !.username = arg], f,
               <<Reply(331, "Password is required")>>, "Ok")

\* Commands::Password
HandlePassword(sess, f, arg) ==
  IF sess.username = <<>> THEN Outcome(sess, f, <<Reply(501, "Username is required.")>>, "Ok")
  ELSE IF arg = <<>> THEN Outcome(sess, f, <<Reply(501, "Password is required")>>, "Ok")
  ELSE IF ~check_password(sess.username, arg)
    THEN Outcome(sess, f, <<Reply(530, "Authorization failed.")>>, "Ok")
  ELSE Outcome([sess EXCEPT !.authorized = TRUE], f, <<Reply(230, "Login success.")>>, "Ok")

\* Commands::WorkingDir
HandleWorkingDir(sess, f) ==
  Outcome(sess, f, <<ReplyWith(257, "is the current directory.", sess.current_dir)>>, "Ok")

\* Commands::ChangeDir
HandleChangeDir(sess, f, arg) ==
  IF require_authorization(sess) THEN LoginRequired(sess, f)
  ELSE IF arg = <<>> THEN Outcome(sess, f, <<Reply(501, "Path is required")>>, "Ok")
  ELSE LET temp_cwd == join(sess.current_dir, arg)
           real_path == real_path_of(temp_cwd)
       IN IF ~exists(f, real_path)
            THEN [Outcome(sess, f, <<Reply(550, "Path does not exist.")>>, "Ok")
                    EXCEPT !.probed = {real_path}]
          ELSE IF ~is_dir(f, real_path)
            THEN [Outcome(sess, f, <<Reply(550, "Not a directory.")>>, "Ok")
                    EXCEPT !.probed = {real_path}]
          ELSE [Outcome([sess EXCEPT !.current_dir = temp_cwd], f,
                        <<Reply(250, "Directory changed.")>>, "Ok")
                  EXCEPT !.probed = {real_path}]

\* Commands::Option
HandleOption(sess, f, arg) ==
  IF arg = <<>> THEN Outcome(sess, f, <<Reply(501, "Argument is required")>>, "Ok")
  ELSE IF arg = <<"UTF8">>
    THEN Outcome(sess, f, <<Reply(200, "UTF-8 is enabled by default.")>>, "Ok")
  ELSE Outcome(sess, f, <<Reply(501, "Unknown option")>>, "Ok")

ListOpenFailed_Replies425(sess, f) ==
  Outcome(sess, f, <<Reply(425, "Cant open data connection.")>>, "Ok")

\* Commands::List, open_data_connection's error: map_err and `?` return
\* DataConnectionFailed out of the handler with nothing written.
ListOpenFailed(sess, f) == Outcome(sess, f, <<>>, "DataConnectionFailed")

\* Commands::List.  copy is what the data connection does with the writes.
HandleList(sess, f, net, copy) ==
  IF require_authorization(sess) THEN LoginRequired(sess, f)
  ELSE LET dc == open_data_connection(sess, net)
           real_path == real_path_of(sess.current_dir)
       IN IF ~dc.ok THEN ListOpenFailed(dc.sess, f)
          ELSE IF ~is_dir(f, real_path)
            THEN [Outcome(dc.sess, f, <<Reply(150, "Listing of directory")>>, "FileSystemError")
                    EXCEPT !.opened = TRUE, !.probed = {real_path}]
          ELSE IF CopyFailed(copy) /\ read_dir(f, Walk(f, <<>>, real_path)[1]) # {}
            THEN [Outcome(dc.sess, f, <<Reply(150, "Listing of directory")>>, "WriteError")
                    EXCEPT !.opened = TRUE, !.probed = {real_path}]
          ELSE [Outcome(dc.sess, f, <<Reply(150, "Listing of directory"),
                                      Reply(226, "Transfer complete.")>>, "Ok")
                  EXCEPT !.opened = TRUE, !.probed = {real_path},
                         !.listed = read_dir(f, Walk(f, <<>>, real_path)[1])]

\* Commands::Quit
HandleQuit(sess, f) == Outcome(sess, f, <<Reply(221, "Bye!")>>, "ClosedByQuit")

\* Commands::Features
HandleFeatures(sess, f) ==
  Outcome(sess, f,
          <<Reply(211, "Features")>>
            \o [i \in 1..Len(SERVER_FEATURES) |-> reply_without_code(SERVER_FEATURES[i])]
            \o <<Reply(211, "End")>>, "Ok")

\* Commands::Unknown
HandleUnknown(sess, f) == Outcome(sess, f, <<Reply(502, "Unknown command.")>>, "Ok")

\* Commands::System
HandleSystem(sess, f) == Outcome(sess, f, <<Reply(215, "UNIX Type: L8")>>, "Ok")

\* Commands::Type
HandleType(sess, f) == Outcome(sess, f, <<Reply(200, "OK")>>, "Ok")

\* Commands::Size
HandleSize(sess, f, arg) ==
  IF require_authorization(sess) THEN LoginRequired(sess, f)
  ELSE IF arg = <<>> THEN Outcome(sess, f, <<Reply(501, "Path is required")>>, "Ok")
  ELSE LET temp_path == join(sess.current_dir, arg)
           real_path == real_path_of(temp_path)
       IN IF ~exists(f, real_path)
            THEN [Outcome(sess, f, <<Reply(550, "Path does not exist.")>>, "Ok")
                    EXCEPT !.probed = {real_path}]
          ELSE IF ~is_file(f, real_path)
            THEN [Outcome(sess, f, <<Reply(550, "Not a file.")>>, "Ok")
                    EXCEPT !.probed = {real_path}]
          ELSE [Outcome(sess, f,
                        <<ReplyWith(213, "size", <<Len(f.files[Walk(f, <<>>, real_path)[1]])>>)>>,
                        "Ok")
                  EXCEPT !.probed = {real_path}]

\* Commands::ChangeDirectoryUp
HandleChangeDirectoryUp(sess, f) ==
  IF require_authorization(sess) THEN LoginRequired(sess, f)
  ELSE LET p == parent(sess.current_dir) IN
       Outcome([sess EXCEPT !.current_dir = IF p # None THEN p[1] ELSE <<>>], f,
               <<Reply(250, "Directory changed.")>>, "Ok")

\* "h1.h2.h3.h4:port".parse::<SocketAddr>(): Some(addr) when the four host
\* fields are decimal octets, None for the parse error.
parse_socket_addr(h, port) ==
  IF \A i \in 1..4 : parse(h[i]) # None /\ parse(h[i])[1] <= 255
    THEN Some([ip |-> [i \in 1..4 |-> parse(h[i])[1]], port |-> port])
    ELSE None

\* Commands::Port.  The two parse().unwrap() and the address's
\* parse().unwrap() unwind on Err.
HandlePort(sess, f, arg) ==
  IF require_authorization(sess) THEN LoginRequired(sess, f)
  ELSE IF arg = <<>> THEN Outcome(sess, f, <<Reply(501, "Address is required")>>, "Ok")
  ELSE LET splitted == Split(arg, ",") IN
    IF Len(splitted) # 6
      THEN Outcome(sess, f, <<Reply(501, "Syntax error in arguments")>>, "Ok")
    ELSE LET h == [i \in 1..4 |-> Trim(splitted[i])]
             p1 == parse(Trim(splitted[5]))
             p2 == parse(Trim(splitted[6]))
         IN IF p1 = None THEN Outcome(sess, f, <<>>, "Panic")
            ELSE IF p1[1] > 255 THEN Outcome(sess, f, <<Reply(501, "Invalid port.")>>, "Ok")
            ELSE IF p2 = None THEN Outcome(sess, f, <<>>, "Panic")
            ELSE IF p2[1] > 255 THEN Outcome(sess, f, <<Reply(501, "Invalid port.")>>, "Ok")
            ELSE LET addr == parse_socket_addr(h, p1[1] * 256 + p2[1]) IN
              IF addr = None THEN Outcome(sess, f, <<>>, "Panic")
              ELSE Outcome([sess EXCEPT !.passive_listener = None,
                                        !.active_addr = Some(addr[1])], f,
                           <<Reply(200, "PORT command success.")>>, "Ok")

\* The ports TcpListener::bind("0.0.0.0:0") is given by the system.
EphemeralPorts == {50001}
\* The control connection's local address (connection.local_addr()).
LocalIp == <<127, 0, 0, 1>>

\* Commands::Passive.  bind is None when TcpListener::bind fails, otherwise
\* Some(the port of the new listener).
HandlePassive(sess, f, bind) ==
  IF require_authorization(sess) THEN LoginRequired(sess, f)
  ELSE IF bind = None THEN Outcome(sess, f, <<>>, "FileSystemError")
  ELSE Outcome([sess EXCEPT !.passive_listener = Some([port |-> bind[1]])], f,
               <<ReplyWith(227, "Entering Passive Mode",
                           LocalIp \o <<bind[1] \div 256, bind[1] % 256>>)>>, "Ok")

\* Commands::Rest.  arg.parse().unwrap() unwinds on Err.
HandleRest(sess, f, arg) ==
  IF require_authorization(sess) THEN LoginRequired(sess, f)
  ELSE IF arg = <<>> THEN Outcome(sess, f, <<Reply(501, "Argument is required.")>>, "Ok")
  ELSE IF parse(arg) = None THEN Outcome(sess, f, <<>>, "Panic")
  ELSE Outcome([sess EXCEPT !.rest_offset = parse(arg)[1]], f,
               <<Reply(350, "Restarting at sepcific bytes.")>>, "Ok")

restart_rejected_OffByOne(rest_offset, size) == rest_offset > 0 /\ rest_offset > size

\* Commands::Retrive, the test of the restart position against the file's size.
restart_rejected(rest_offset, size) == rest_offset > 0 /\ rest_offset >= size

\* Commands::Retrive, for a path that names no directory.
HandleRetrive(sess, f, arg, net, copy) ==
  IF require_authorization(sess) THEN LoginRequired(sess, f)
  ELSE IF ~can_user_read(sess.username)
    THEN Outcome(sess, f, <<Reply(501, "No permission to read.")>>, "Ok")
  ELSE IF arg = <<>> THEN Outcome(sess, f, <<Reply(501, "Argument is required.")>>, "Ok")
  ELSE LET real_path == get_real_path(sess)
           file_path == join(real_path, arg)
       IN IF ~exists(f, file_path)
            THEN [Outcome(sess, f, <<Reply(550, "File not found.")>>, "Ok")
                    EXCEPT !.probed = {file_path}]
          ELSE LET file == f.files[Walk(f, <<>>, file_path)[1]]
                   size == Len(file)
               IN IF restart_rejected(sess.rest_offset, size)
                    THEN [Outcome([sess EXCEPT !.rest_offset = 0], f,
                                  <<Reply(550, "Invalid restart position.")>>, "Ok")
                            EXCEPT !.probed = {file_path}]
                  ELSE LET dc == open_data_connection(sess, net)
                           rest == SubSeq(file, sess.rest_offset + 1, size)
                       IN IF ~dc.ok
                            THEN [Outcome(dc.sess, f,
                                          <<Reply(425, "Cant open data connection.")>>, "Ok")
                                    EXCEPT !.probed = {file_path}]
                          ELSE IF CopyFailed(copy)
                            THEN [Outcome(dc.sess, f, <<Reply(150, "Ready to transfer...")>>,
                                          "DataConnectionFailed")
                                    EXCEPT !.probed = {file_path}, !.opened = TRUE,
                                           !.sent = Copied(rest, copy)]
                          ELSE [Outcome(dc.sess, f, <<Reply(150, "Ready to transfer..."),
                                                      Reply(226, "Done.")>>, "Ok")
                                  EXCEPT !.probed = {file_path}, !.opened = TRUE,
                                         !.sent = Copied(rest, copy)]

\* Commands::Store.  upload is what the client sends on the data connection.
HandleStore(sess, f, arg, net, copy, upload) ==
  IF require_authorization(sess) THEN LoginRequired(sess, f)
  ELSE IF ~can_user_write(sess.username)
    THEN Outcome(sess, f, <<Reply(550, "No permission to write.")>>, "Ok")
  ELSE IF arg = <<>> THEN Outcome(sess, f, <<Reply(501, "Argument is required.")>>, "Ok")
  ELSE IF arg \in DISALLOWED_FILENAMES
    THEN Outcome(sess, f, <<Reply(553, "File name not allowed.")>>, "Ok")
  ELSE LET real_path == get_real_path(sess)
           file_path == join(real_path, arg)
           parent_dir == IF parent(file_path) # None THEN parent(file_path)[1] ELSE <<>>
           made == create_dir_all(f, parent_dir)
       IN IF made = None
            THEN [Outcome(sess, f, <<>>, "FileSystemError") EXCEPT !.probed = {parent_dir}]
          ELSE LET created == FileCreate(made[1], file_path) IN
            IF created = None
              THEN [Outcome(sess, made[1], <<>>, "FileSystemError")
                      EXCEPT !.probed = {parent_dir, file_path}]
            ELSE LET dc == open_data_connection(sess, net)
                     g == created[1].fs
                     written == [g EXCEPT !.files[created[1].node] = Copied(upload, copy)]
                 IN IF ~dc.ok
                      THEN [Outcome(dc.sess, g, <<>>, "DataConnectionFailed")
                              EXCEPT !.probed = {parent_dir, file_path}]
                    ELSE IF CopyFailed(copy)
                      THEN [Outcome(dc.sess, written, <<>>, "DataConnectionFailed")
                              EXCEPT !.probed = {parent_dir, file_path}, !.opened = TRUE,
                                     !.uploaded = upload]
                    ELSE [Outcome(dc.sess, written, <<Reply(226, "Transfer complete.")>>, "Ok")
                            EXCEPT !.probed = {parent_dir, file_path}, !.opened = TRUE,
                                   !.uploaded = upload]

\* ------------------------------------------------------------------ state

VARIABLES
  session,  \* session[s]: the Session of task s (its fields, as in the struct)
  task,     \* task[s]: "Idle" before the accept, "Running", or how run_session ended
  log,      \* log[s]: what the acceptor's task logged when the session ended
  fs,       \* the filesystem, shared by every session
  wire,     \* wire[s]: the last turn of s: the data read, the command, the session before it, and
            \* what it did (replies, data connection, filesystem)
  hist,     \* hist[s]: what the connections of s have shown so far: the USER
            \* answered 331, whether the last USER was rejected with only
            \* PASS after it, the login answered 230, and the last upload, kept
            \* while only PORT, PASV and RETR follow it, and what the uploads
            \* of s alone have added to the filesystem
  ctl       \* ctl[s]: the control connection of s seen step by step: the lines
            \* the client wrote that are not read yet, where the session's task
            \* stands between two awaits, and the transcript so far

vars == <<session, task, log, fs, wire, hist, ctl>>

NoWire ==
  [data |-> <<>>, command |-> "None", arg |-> <<>>, replies |-> <<>>, result |-> "Ok",
   sent |-> <<>>, opened |-> FALSE, probed |-> {}, listed |-> {},
   before |-> NewSession, wrote |-> FALSE]

NoHist ==
  [user331 |-> <<>>, rejected |-> FALSE, login |-> None, stor |-> None,
   own |-> [dirs |-> {}, files |-> <<>>]]

\* What f adds to the initial filesystem: the new directories, and the files
\* that are new or differ.
Added(f) ==
  [dirs |-> f.dirs \ InitFs.dirs,
   files |-> [p \in {q \in DOMAIN f.files :
                       q \notin DOMAIN InitFs.files \/ f.files[q] # InitFs.files[q]}
                |-> f.files[p]]]

\* The initial filesystem with the additions own.
WithAdded(own) ==
  [dirs |-> InitFs.dirs \cup own.dirs, files |-> own.files @@ InitFs.files]

NoReq == [data |-> <<>>, skipped |-> FALSE, command |-> "None", arg |-> <<>>]

NoCtl ==
  [pc |-> "receive", inbox |-> <<>>, sends |-> 0, n |-> 0, req |-> NoReq,
   out |-> None, events |-> <<>>]

Init ==
  /\ session = [s \in SessionIds |-> NewSession]
  /\ task = [s \in SessionIds |-> "Idle"]
  /\ log = [s \in SessionIds |-> "none"]
  /\ fs = InitFs
  /\ wire = [s \in SessionIds |-> NoWire]
  /\ hist = [s \in SessionIds |-> NoHist]
  /\ ctl = [s \in SessionIds |-> NoCtl]

\* ----------------------------------------------------------------- inputs

Line(verb, arg) ==
  <<verb>> \o (IF arg = <<>> THEN <<>> ELSE <<" ">> \o arg) \o <<"\r\n">>

\* The numeral of n, for the numbers the clients send.
Numeral(n) == CHOOSE t \in DOMAIN Decimal : Decimal[t] = n

UserArgs == {<<>>, <<"alice">>, <<"bob">>, <<"carol">>, <<"mallory">>}
PassArgs == {<<>>, <<"pa">>, <<"pb">>, <<"pc">>}
CwdArgs  == {<<>>, <<"sub">>, <<"..">>, <<"/">>, <<"f">>, <<"nope">>}
SizeArgs == {<<>>, <<"f">>, <<"sub">>, <<"nope">>, <<"..", "/", "secret">>}
RetrArgs == {<<>>, <<"f">>, <<"nope">>, <<"..", "/", "secret">>, <<"/", "secret">>}
StorArgs == {<<>>, <<"f">>, <<"d", "/", "n">>, <<".">>, <<"..">>}
RestArgs == {<<>>, <<"abc">>, <<"-1">>} \cup {<<Numeral(n)>> : n \in 0..MaxRest}
OptsArgs == {<<>>, <<"UTF8">>, <<"MLST">>}
PortArgs ==
  {<<>>,
   <<"127", ",", "0", ",", "0", ",", "1", ",", "4", ",", "1">>,
   <<"127", ",", "0", ",", "0", ",", "1", ",", "4">>,
   <<"127", ",", "0", ",", "0", ",", "1", ",", "4", ",", "1", ",", "1">>,
   <<"127", ",", "0", ",", "0", ",", "1", ",", "256", ",", "1">>,
   <<"127", ",", "0", ",", "0", ",", "1", ",", "4", ",", "256">>,
   <<"127", ",", "0", ",", "0", ",", "1", ",", "x", ",", "1">>,
   <<"127", ",", "0", ",", "0", ",", "1", ",", "4", ",", "x">>,
   <<"256", ",", "0", ",", "0", ",", "1", ",", "4", ",", "1">>}

\* What one read of the control connection can return.
ClientData ==
  {Line("USER", a) : a \in UserArgs} \cup {Line("PASS", a) : a \in PassArgs}
  \cup {Line("CWD", a) : a \in CwdArgs} \cup {Line("SIZE", a) : a \in SizeArgs}
  \cup {Line("RETR", a) : a \in RetrArgs} \cup {Line("STOR", a) : a \in StorArgs}
  \cup {Line("REST", a) : a \in RestArgs} \cup {Line("OPTS", a) : a \in OptsArgs}
  \cup {Line("PORT", a) : a \in PortArgs}
  \cup {Line(v, <<>>) : v \in {"PWD", "XPWD", "CDUP", "LIST", "NLST", "PASV", "SYST",
                               "FEAT", "QUIT", "NOOP", "quit"}}
  \cup {Line("TYPE", <<"I">>), <<"\r\n">>}

\* What the client uploads on a data connection.
Uploads == {<<7, 8, 9>>}

\* What the network does with a dial or an accept.
Nets == {"ok", "fail"}
\* What a copy does: it runs to the end, or fails after some bytes.
Copies == {None, Some(1)}
\* What the copy does on the connection net gave: there is a copy to fail only
\* on a connection that opened.
CopiesOn(net) == IF net = "ok" THEN Copies ELSE {None}
\* What TcpListener::bind does.
Binds == {None} \cup {Some(p) : p \in EphemeralPorts}

\* ---------------------------------------------------------------- actions

\* Server::start_server, one turn of the accept loop: the task of session s is
\* spawned, Session::new builds the session and run_session greets.
Accept(s) ==
  /\ task[s] = "Idle"
  /\ session' = [session EXCEPT ![s] = NewSession]
  /\ task' = [task EXCEPT ![s] = "Running"]
  /\ wire' = [wire EXCEPT ![s] =
                [NoWire EXCEPT !.command = "Accept",
                               !.replies = <<Reply(220, "Dock is welcoming you!")>>]]
  /\ UNCHANGED <<log, fs, hist, ctl>>

Logged_QuitAsFailure(result) ==
  IF result = "Panic" THEN "none" ELSE "error: Session failed"

\* The spawned task's handling of run_session's Err(e) (server.rs 55-61): a
\* panic unwinds through it and logs nothing.
Logged(result) ==
  IF result = "Panic" THEN "none"
  ELSE IF result = "ClosedByQuit" THEN "info: Session was closed by user."
  ELSE "error: Session failed"

\* Session::receive failing: the read returns 0 bytes (Disconnected) or an
\* error (ReadFailed); run_session returns the error.
ReceiveError(s) ==
  /\ task[s] = "Running"
  /\ \E e \in {"Disconnected", "ReadFailed"} :
       /\ task' = [task EXCEPT ![s] = e]
       /\ log' = [log EXCEPT ![s] = Logged(e)]
       /\ wire' = [wire EXCEPT ![s] =
                     [NoWire EXCEPT !.command = "None", !.result = e, !.before = session[s]]]
  /\ UNCHANGED <<session, fs, hist, ctl>>

\* run_session, one turn of the loop for a read that returned data: split_data
\* and Commands::from give the command and the argument that are dispatched.
Parsed(data) ==
  LET sp == split_data(data) IN
  IF sp = None THEN [data |-> data, skipped |-> TRUE, command |-> "None", arg |-> <<>>]
  ELSE [data |-> data, skipped |-> FALSE,
        command |-> CommandsFrom(sp[1].command), arg |-> sp[1].arg]

\* The reads of ClientData by the handler they reach.
Requests ==
  [command \in {"User", "Password", "WorkingDir", "ChangeDir", "ChangeDirectoryUp",
                "Option", "List", "Port", "Rest", "Passive", "Retrive", "Store", "Size",
                "System", "Type", "Features", "Quit", "Unknown"} |->
     {r \in {Parsed(data) : data \in ClientData} : ~r.skipped /\ r.command = command}]

HasCode(replies, code) == \E i \in 1..Len(replies) : replies[i].code = code

Turn_SharedSession(s, req, out, own) ==
  /\ session' = [t \in SessionIds |-> out.sess]
  /\ fs' = out.fs
  /\ task' = [task EXCEPT ![s] = IF out.result = "Ok" THEN "Running" ELSE out.result]
  /\ log' = [log EXCEPT ![s] = IF out.result = "Ok" THEN @ ELSE Logged(out.result)]
  /\ wire' = [wire EXCEPT ![s] =
                [data |-> req.data, command |-> req.command, arg |-> req.arg,
                 replies |-> out.replies,
                 result |-> out.result, sent |-> out.sent, opened |-> out.opened,
                 probed |-> out.probed, listed |-> out.listed,
                 before |-> session[s], wrote |-> out.fs # fs]]
  /\ hist' = [hist EXCEPT ![s].own = own]
  /\ UNCHANGED ctl

\* The turn's effect: the session and filesystem the handler leaves, the end of
\* the task when handle_command returns Err or unwinds, and what the peer saw.
\* own is what the uploads of s alone have added to the filesystem.
Turn(s, req, out, own) ==
  /\ session' = [session EXCEPT ![s] = out.sess]
  /\ fs' = out.fs
  /\ task' = [task EXCEPT ![s] = IF out.result = "Ok" THEN "Running" ELSE out.result]
  /\ log' = [log EXCEPT ![s] = IF out.result = "Ok" THEN @ ELSE Logged(out.result)]
  /\ wire' = [wire EXCEPT ![s] =
                [data |-> req.data, command |-> req.command, arg |-> req.arg,
                 replies |-> out.replies,
                 result |-> out.result, sent |-> out.sent, opened |-> out.opened,
                 probed |-> out.probed, listed |-> out.listed,
                 before |-> session[s], wrote |-> out.fs # fs]]
  /\ hist' = [hist EXCEPT ![s] =
                [user331 |-> IF req.command = "User" /\ HasCode(out.replies, 331)
                               THEN req.arg ELSE hist[s].user331,
                 rejected |-> IF req.command = "User"
                                THEN /\ ~session[s].authorized
                                     /\ (HasCode(out.replies, 501) \/ HasCode(out.replies, 530))
                              ELSE IF req.command = "Password" THEN hist[s].rejected
                              ELSE FALSE,
                 login |-> IF req.command = "Password" /\ HasCode(out.replies, 230)
                             THEN Some([user |-> hist[s].user331, pass |-> req.arg])
                             ELSE hist[s].login,
                 stor |-> IF req.command = "Store"
                            THEN IF HasCode(out.replies, 226)
                                   THEN Some([arg |-> req.arg,
                                              cwd |-> session[s].current_dir,
                                              bytes |-> out.uploaded])
                                   ELSE None
                          ELSE IF req.command \in {"Port", "Passive", "Retrive"}
                            THEN hist[s].stor
                          ELSE None,
                 own |-> own]]
  /\ UNCHANGED ctl

\* A turn of a handler that writes no file.
Finish(s, req, out) == Turn(s, req, out, hist[s].own)

User(s) ==
  \E req \in Requests["User"] :
    /\ task[s] = "Running"
    /\ Finish(s, req, HandleUser(session[s], fs, req.arg))

Password(s) ==
  \E req \in Requests["Password"] :
    /\ task[s] = "Running"
    /\ Finish(s, req, HandlePassword(session[s], fs, req.arg))

WorkingDir(s) ==
  \E req \in Requests["WorkingDir"] :
    /\ task[s] = "Running"
    /\ Finish(s, req, HandleWorkingDir(session[s], fs))

ChangeDir(s) ==
  \E req \in Requests["ChangeDir"] :
    /\ task[s] = "Running"
    /\ LET out == HandleChangeDir(session[s], fs, req.arg) IN
         /\ Len(out.sess.current_dir) <= MaxDepth
         /\ Finish(s, req, out)

Option(s) ==
  \E req \in Requests["Option"] :
    /\ task[s] = "Running"
    /\ Finish(s, req, HandleOption(session[s], fs, req.arg))

List(s) ==
  \E req \in Requests["List"], net \in Nets : \E copy \in CopiesOn(net) :
    /\ task[s] = "Running"
    /\ Finish(s, req, HandleList(session[s], fs, net, copy))

Quit(s) ==
  \E req \in Requests["Quit"] :
    /\ task[s] = "Running"
    /\ Finish(s, req, HandleQuit(session[s], fs))

Features(s) ==
  \E req \in Requests["Features"] :
    /\ task[s] = "Running"
    /\ Finish(s, req, HandleFeatures(session[s], fs))

Unknown(s) ==
  \E req \in Requests["Unknown"] :
    /\ task[s] = "Running"
    /\ Finish(s, req, HandleUnknown(session[s], fs))

System(s) ==
  \E req \in Requests["System"] :
    /\ task[s] = "Running"
    /\ Finish(s, req, HandleSystem(session[s], fs))

Type(s) ==
  \E req \in Requests["Type"] :
    /\ task[s] = "Running"
    /\ Finish(s, req, HandleType(session[s], fs))

Size(s) ==
  \E req \in Requests["Size"] :
    /\ task[s] = "Running"
    /\ Finish(s, req, HandleSize(session[s], fs, req.arg))

ChangeDirectoryUp(s) ==
  \E req \in Requests["ChangeDirectoryUp"] :
    /\ task[s] = "Running"
    /\ Finish(s, req, HandleChangeDirectoryUp(session[s], fs))

Port(s) ==
  \E req \in Requests["Port"] :
    /\ task[s] = "Running"
    /\ Finish(s, req, HandlePort(session[s], fs, req.arg))

Passive(s) ==
  \E req \in Requests["Passive"], bind \in Binds :
    /\ task[s] = "Running"
    /\ Finish(s, req, HandlePassive(session[s], fs, bind))

Rest(s) ==
  \E req \in Requests["Rest"] :
    /\ task[s] = "Running"
    /\ Finish(s, req, HandleRest(session[s], fs, req.arg))

\* RETR of a path that names a directory is left out of the model: what
\* File::open and metadata make of a directory depends on the platform.
Retrive(s) ==
  \E req \in Requests["Retrive"], net \in Nets : \E copy \in CopiesOn(net) :
    /\ task[s] = "Running"
    /\ ~is_dir(fs, join(get_real_path(session[s]), req.arg))
    /\ Finish(s, req,
              HandleRetrive(session[s], fs, req.arg, net, copy))

Store(s) ==
  \E req \in Requests["Store"], net \in Nets, upload \in Uploads : \E copy \in CopiesOn(net) :
    /\ task[s] = "Running"
    /\ LET out == HandleStore(session[s], fs, req.arg, net, copy, upload) IN
         /\ Cardinality(DOMAIN out.fs.files)
              <= Cardinality(DOMAIN InitFs.files) + MaxNewFiles
         /\ Turn(s, req, out,
                 Added(HandleStore(session[s], WithAdded(hist[s].own),
                                   req.arg, net, copy, upload).fs))

Step(s) ==
  \/ Accept(s) \/ ReceiveError(s)
  \/ User(s) \/ Password(s) \/ WorkingDir(s) \/ ChangeDir(s) \/ Option(s)
  \/ List(s) \/ Quit(s) \/ Features(s) \/ Unknown(s) \/ System(s) \/ Type(s)
  \/ Size(s) \/ ChangeDirectoryUp(s) \/ Port(s) \/ Passive(s) \/ Rest(s)
  \/ Retrive(s) \/ Store(s)

\* One client: a server that accepts a single control connection.
Next == Step(1)

Spec == Init /\ [][Next]_vars

\* ------------------------------------------------- the loop, step by step

\* The same session loop with its awaits told apart, for a client whose writes
\* run ahead of the server's reads: the socket keeps what is written until
\* receive reads it.

\* match cmd of handle_command: the arm a request reaches.
handle_command(sess, f, req, net, copy, bind, upload) ==
  CASE req.command = "User" -> HandleUser(sess, f, req.arg)
    [] req.command = "Password" -> HandlePassword(sess, f, req.arg)
    [] req.command = "WorkingDir" -> HandleWorkingDir(sess, f)
    [] req.command = "ChangeDir" -> HandleChangeDir(sess, f, req.arg)
    [] req.command = "Option" -> HandleOption(sess, f, req.arg)
    [] req.command = "List" -> HandleList(sess, f, net, copy)
    [] req.command = "Quit" -> HandleQuit(sess, f)
    [] req.command = "Features" -> HandleFeatures(sess, f)
    [] req.command = "Unknown" -> HandleUnknown(sess, f)
    [] req.command = "System" -> HandleSystem(sess, f)
    [] req.command = "Type" -> HandleType(sess, f)
    [] req.command = "Size" -> HandleSize(sess, f, req.arg)
    [] req.command = "ChangeDirectoryUp" -> HandleChangeDirectoryUp(sess, f)
    [] req.command = "Port" -> HandlePort(sess, f, req.arg)
    [] req.command = "Passive" -> HandlePassive(sess, f, bind)
    [] req.command = "Rest" -> HandleRest(sess, f, req.arg)
    [] req.command = "Retrive" -> HandleRetrive(sess, f, req.arg, net, copy)
    [] req.command = "Store" -> HandleStore(sess, f, req.arg, net, copy, upload)

\* The lines the writing-ahead client chooses from.
LoopData ==
  {Line("USER", <<"alice">>), Line("PASS", <<"pa">>), Line("PASV", <<>>),
   Line("RETR", <<"f">>), Line("PWD", <<>>)}

\* The transcript's entries: a read of the control connection, a reply written
\* to it (final: the last reply of its command), a copy on the data connection.
ReadEvent(n) == [kind |-> "read", n |-> n, code |-> 0, final |-> FALSE]
DataEvent(n) == [kind |-> "data", n |-> n, code |-> 0, final |-> FALSE]
ReplyEvents(n, replies, closing) ==
  [i \in 1..Len(replies) |->
     [kind |-> "reply", n |-> n, code |-> replies[i].code,
      final |-> closing /\ i = Len(replies)]]

Is150(r) == r.code = 150
\* The replies a handler writes before it copies on the data connection it
\* opened (150), and those it writes after the copy.
Before(out) == IF out.opened THEN SelectSeq(out.replies, Is150) ELSE out.replies
After(out) ==
  IF out.opened THEN SelectSeq(out.replies, LAMBDA r : ~Is150(r)) ELSE <<>>

\* The spawned task runs run_session: the greeting is written.
LoopAccept(s) ==
  /\ task[s] = "Idle"
  /\ task' = [task EXCEPT ![s] = "Running"]
  /\ session' = [session EXCEPT ![s] = NewSession]
  /\ ctl' = [ctl EXCEPT ![s] =
               [NoCtl EXCEPT !.events =
                  ReplyEvents(0, <<Reply(220, "Dock is welcoming you!")>>, TRUE)]]
  /\ UNCHANGED <<log, fs, wire, hist>>

\* The client writes a line, whatever the server is doing.
ClientWrite(s) ==
  \E data \in LoopData :
    /\ task[s] = "Running" /\ ctl[s].sends < MaxSends
    /\ ctl' = [ctl EXCEPT ![s].inbox = Append(@, data), ![s].sends = @ + 1]
    /\ UNCHANGED <<session, task, log, fs, wire, hist>>

ReadyToReceive_Always(c) == TRUE

\* run_session's loop: receive is awaited at the top of the loop, which the
\* task reaches only when handle_command has returned.
ReadyToReceive(c) == c.pc = "receive"

RECURSIVE Concat(_)
Concat(lines) == IF lines = <<>> THEN <<>> ELSE Head(lines) \o Concat(Tail(lines))

\* self.receive() returns what one read of the socket gives, the first line or
\* the first few lines the client wrote, as one string; split_data and
\* Commands::from make the request of it.
LoopReceive(s) ==
  \E k \in 1..Len(ctl[s].inbox) :
    /\ task[s] = "Running" /\ ReadyToReceive(ctl[s])
    /\ ctl' = [ctl EXCEPT ![s].inbox = SubSeq(@, k + 1, Len(@)), ![s].n = @ + 1,
                           ![s].req = Parsed(Concat(SubSeq(ctl[s].inbox, 1, k))),
                           ![s].pc = "handle",
                           ![s].events = Append(@, ReadEvent(ctl[s].n + 1))]
    /\ UNCHANGED <<session, task, log, fs, wire, hist>>

\* handle_command up to its copy on the data connection: a handler that
\* opened none has run to its end, one that opened one has written 150.
LoopHandle(s) ==
  \E net \in Nets, bind \in Binds, upload \in Uploads : \E copy \in CopiesOn(net) :
    LET out == handle_command(session[s], fs, ctl[s].req, net, copy, bind, upload) IN
    /\ task[s] = "Running" /\ ctl[s].pc = "handle"
    /\ session' = [session EXCEPT ![s] = out.sess]
    /\ IF out.opened
         THEN /\ ctl' = [ctl EXCEPT ![s].pc = "transfer", ![s].out = Some(out),
                                    ![s].events = @ \o ReplyEvents(ctl[s].n, Before(out), FALSE)]
              /\ UNCHANGED <<task, log, fs>>
         ELSE /\ ctl' = [ctl EXCEPT ![s].pc = "receive", ![s].req = NoReq,
                                    ![s].events = @ \o ReplyEvents(ctl[s].n, Before(out), TRUE)]
              /\ fs' = out.fs
              /\ task' = [task EXCEPT ![s] = IF out.result = "Ok" THEN "Running" ELSE out.result]
              /\ log' = [log EXCEPT ![s] = IF out.result = "Ok" THEN @ ELSE Logged(out.result)]
    /\ UNCHANGED <<wire, hist>>

\* io::copy between the file and the data connection, awaited inside the
\* handler; a failed copy returns the error out of run_session.
LoopTransfer(s) ==
  /\ task[s] = "Running" /\ ctl[s].pc = "transfer"
  /\ LET out == ctl[s].out[1] IN
     /\ fs' = out.fs
     /\ ctl' = [ctl EXCEPT ![s].pc = IF out.result = "Ok" THEN "final" ELSE "receive",
                            ![s].events = Append(@, DataEvent(ctl[s].n))]
     /\ task' = [task EXCEPT ![s] = IF out.result = "Ok" THEN "Running" ELSE out.result]
     /\ log' = [log EXCEPT ![s] = IF out.result = "Ok" THEN @ ELSE Logged(out.result)]
  /\ UNCHANGED <<session, wire, hist>>

\* The handler's reply after the copy (226); handle_command returns.
LoopFinalReply(s) ==
  /\ task[s] = "Running" /\ ctl[s].pc = "final"
  /\ ctl' = [ctl EXCEPT ![s].pc = "receive", ![s].req = NoReq, ![s].out = None,
                         ![s].events = @ \o ReplyEvents(ctl[s].n, After(ctl[s].out[1]), TRUE)]
  /\ UNCHANGED <<session, task, log, fs, wire, hist>>

LoopNext ==
  \/ LoopAccept(1) \/ ClientWrite(1) \/ LoopReceive(1) \/ LoopHandle(1)
  \/ LoopTransfer(1) \/ LoopFinalReply(1)

LoopSpec == Init /\ [][LoopNext]_vars

\* ------------------------------------------------------ concurrent sessions

\* What the clients of two concurrent sessions send.
ConcurrentData ==
  {Line("USER", <<"alice">>), Line("PASS", <<"pa">>), Line("PASV", <<>>),
   Line("STOR", <<"f">>), Line("REST", <<Numeral(2)>>), Line("RETR", <<"f">>),
   Line("REST", <<"abc">>)}

\* Server::start_server with two accepted connections: each spawned task runs
\* its own session, and the runtime interleaves their turns.
Sends(s) == wire'[s].data \in ConcurrentData \cup {<<>>}

ConcurrentStep(s) ==
  \/ Accept(s) /\ Sends(s)
  \/ ReceiveError(s) /\ Sends(s)
  \/ User(s) /\ Sends(s)
  \/ Password(s) /\ Sends(s)
  \/ Passive(s) /\ Sends(s)
  \/ Store(s) /\ Sends(s)
  \/ Rest(s) /\ Sends(s)
  \/ Retrive(s) /\ Sends(s)

ConcurrentNext == \E s \in SessionIds : ConcurrentStep(s)

ConcurrentSpec == Init /\ [][ConcurrentNext]_vars

\* ----------------------------------------------------------------- claims

\* The commands that answer without a login, and those behind require_authorization.
Exempt ==
  {"User", "Password", "Quit", "Features", "System", "Type", "Option", "WorkingDir"}
Privileged ==
  {"ChangeDir", "ChangeDirectoryUp", "List", "Port", "Passive", "Rest", "Retrive",
   "Store", "Size"}

Codes(replies) == [i \in 1..Len(replies) |-> replies[i].code]

\* The turn left the session's working directory, restart offset and data
\* channel arming as they were, opened no data connection and handed no path
\* to the filesystem.
NoPrivilegedEffect(s) ==
  /\ session[s].current_dir = wire[s].before.current_dir
  /\ session[s].rest_offset = wire[s].before.rest_offset
  /\ session[s].active_addr = wire[s].before.active_addr
  /\ session[s].passive_listener = wire[s].before.passive_listener
  /\ ~wire[s].opened /\ wire[s].sent = <<>> /\ wire[s].listed = {}
  /\ wire[s].probed = {} /\ ~wire[s].wrote

\* C1: while authorized is false, CWD, CDUP, LIST, PORT, PASV, REST, RETR, STOR
\* and SIZE leave current_dir, rest_offset, active_addr and passive_listener
\* unchanged, open no data connection and touch no file.
C1_UnauthorizedNoPrivilegedAction ==
  \A s \in SessionIds :
    (wire[s].command \in Privileged /\ ~wire[s].before.authorized)
      => NoPrivilegedEffect(s) /\ ~session[s].authorized

\* A STOR of a file name received after USER alice and before any PASS.
C1_Witness ==
  \E s \in SessionIds :
    /\ wire[s].command = "Store" /\ wire[s].arg = <<"f">>
    /\ ~wire[s].before.authorized /\ wire[s].before.username = <<"alice">>

\* C2 as stated: while authorized is false every command outside USER, PASS,
\* QUIT, FEAT, SYST, TYPE, OPTS, PWD/XPWD, the unknown verbs included, is
\* answered 530.
C2_EveryOtherCommand530 ==
  \A s \in SessionIds :
    (wire[s].command \in (Privileged \cup {"Unknown"}) /\ ~wire[s].before.authorized)
      => Codes(wire[s].replies) = <<530>>

\* C2 as amended: while authorized is false every recognized command outside
\* the exempt ones is answered 530 alone, and a verb that folds to Unknown is
\* answered 502 alone.
C2_GatedCommands530UnknownVerbs502 ==
  \A s \in SessionIds :
    ~wire[s].before.authorized =>
      /\ wire[s].command \in Privileged => Codes(wire[s].replies) = <<530>>
      /\ wire[s].command = "Unknown" => Codes(wire[s].replies) = <<502>>

\* A gated command (SIZE) received without a login.
C2_Witness ==
  \E s \in SessionIds :
    /\ wire[s].command = "Size" /\ wire[s].arg = <<"f">>
    /\ ~wire[s].before.authorized /\ task[s] = "Running"

\* C3: authorized is true only after a USER naming a user of the table was
\* answered 331 and a following PASS carrying that user's configured password
\* was answered 230; only that PASS turns authorized on.
C3_AuthorizedOnlyAfterUserPass ==
  \A s \in SessionIds :
    /\ session[s].authorized =>
         /\ hist[s].login # None
         /\ \E i \in 1..Len(users) :
              /\ users[i].name = hist[s].login[1].user
              /\ users[i].password = hist[s].login[1].pass
              /\ users[i].name = session[s].username
    /\ (session[s].authorized /\ ~wire[s].before.authorized) =>
         wire[s].command = "Password" /\ Codes(wire[s].replies) = <<230>>

\* The PASS that logs bob in, after an earlier USER alice.
C3_Witness ==
  \E s \in SessionIds :
    /\ session[s].authorized /\ ~wire[s].before.authorized
    /\ session[s].username = <<"bob">> /\ wire[s].arg = <<"pb">>

\* C4 as stated: in every reachable state active_addr and passive_listener
\* are not both set.
C4_NotBothArmed ==
  \A s \in SessionIds :
    ~(session[s].active_addr # None /\ session[s].passive_listener # None)

\* C5 as stated, for RETR: after a RETR that ends with its 226 reply,
\* rest_offset is 0.
C5_RestOffsetZeroAfterTransfer ==
  \A s \in SessionIds :
    (wire[s].command = "Retrive" /\ HasCode(wire[s].replies, 226))
      => session[s].rest_offset = 0

\* C6 as stated: every physical path that CWD, SIZE, RETR or STOR hands to the
\* filesystem lies lexically under the configured root after normalization.
C6_PhysicalPathUnderRoot ==
  \A s \in SessionIds :
    wire[s].command \in {"ChangeDir", "Size", "Retrive", "Store"} =>
      \A path \in wire[s].probed : UnderRoot(path)

\* The permission tag the user table gives a name ("None" for no such user).
PermissionOf(uname) ==
  IF \E i \in 1..Len(users) : users[i].name = uname
    THEN users[CHOOSE i \in 1..Len(users) : users[i].name = uname].permissions
    ELSE "None"

IsErrorReply(replies) ==
  Len(replies) = 1 /\ replies[1].code >= 400 /\ replies[1].code <= 599

\* C7: RETR sends bytes on a data connection only for a user tagged Read or
\* All, STOR creates, truncates or writes a file or creates directories only
\* for a user tagged Write or All; for any other authenticated user the
\* handler answers one error reply and leaves the filesystem and the data
\* channel alone.
C7_TransfersNeedPermission ==
  \A s \in SessionIds :
    LET w == wire[s]
        tag == PermissionOf(w.before.username)
    IN /\ (w.command = "Retrive" /\ (w.opened \/ w.sent # <<>>))
            => (w.before.authorized /\ tag \in {"Read", "All"})
       /\ (w.command = "Store" /\ (w.opened \/ w.wrote))
            => (w.before.authorized /\ tag \in {"Write", "All"})
       /\ (w.before.authorized /\
           ((w.command = "Retrive" /\ tag \notin {"Read", "All"})
            \/ (w.command = "Store" /\ tag \notin {"Write", "All"})))
            => /\ IsErrorReply(w.replies)
               /\ NoPrivilegedEffect(s)
               /\ task[s] = "Running"

\* bob, tagged Read, is refused a STOR while a data channel is armed.
C7_Witness ==
  \E s \in SessionIds :
    /\ wire[s].command = "Store" /\ wire[s].arg = <<"f">>
    /\ wire[s].before.authorized /\ wire[s].before.username = <<"bob">>
    /\ wire[s].before.passive_listener # None
    /\ Codes(wire[s].replies) = <<550>>

\* An argument of PORT that is well formed: six comma-separated decimals, the
\* four host fields and the two port fields each at most 255.
WellFormedPort(arg) ==
  LET parts == Split(arg, ",") IN
  /\ Len(parts) = 6
  /\ \A i \in 1..6 : parse(Trim(parts[i])) # None /\ parse(Trim(parts[i]))[1] <= 255

PortTarget(arg) ==
  LET parts == Split(arg, ",")
      n == [i \in 1..6 |-> parse(Trim(parts[i]))[1]]
  IN [ip |-> <<n[1], n[2], n[3], n[4]>>, port |-> n[5] * 256 + n[6]]

\* A turn that is a per-command protocol error: an unknown command, a gated
\* command without a login, a missing or unparsable argument (REST's among
\* them; PORT's argument is C9's), a transfer the user has no permission for.
ProtocolError(w) ==
  \/ w.command = "Unknown"
  \/ w.command \in Privileged /\ ~w.before.authorized
  \/ w.command = "User" /\ ~w.before.authorized /\ w.arg = <<>>
  \/ w.command = "Option" /\ w.arg = <<>>
  \/ w.command \in {"ChangeDir", "Size", "Port"} /\ w.before.authorized /\ w.arg = <<>>
  \/ w.command = "Rest" /\ w.before.authorized /\ parse(w.arg) = None
  \/ w.command = "Retrive" /\ w.before.authorized
       /\ PermissionOf(w.before.username) \notin {"Read", "All"}
  \/ w.command = "Store" /\ w.before.authorized
       /\ PermissionOf(w.before.username) \notin {"Write", "All"}

\* C8 as stated: a per-command protocol error is answered with one reply from
\* 501, 502, 530, 550, 553 and the session goes on to the next command.
C8_ProtocolErrorsKeepSession ==
  \A s \in SessionIds :
    ProtocolError(wire[s]) =>
      /\ Len(wire[s].replies) = 1
      /\ wire[s].replies[1].code \in {501, 502, 530, 550, 553}
      /\ task[s] = "Running"

\* C9 as stated: a PORT whose argument is not well formed is answered 501 and
\* leaves the arming alone; a well-formed PORT stores the target and is
\* answered 200.
C9_PortArgumentChecked ==
  \A s \in SessionIds :
    (wire[s].command = "Port" /\ wire[s].before.authorized) =>
      IF WellFormedPort(wire[s].arg)
        THEN /\ Codes(wire[s].replies) = <<200>>
             /\ session[s].active_addr = Some(PortTarget(wire[s].arg))
        ELSE /\ Codes(wire[s].replies) = <<501>>
             /\ session[s].active_addr = wire[s].before.active_addr
             /\ session[s].passive_listener = wire[s].before.passive_listener

\* The file a RETR of arg names in the session's directory (None if there is
\* none), looked up in the filesystem as it is.
RetrTarget(before, arg) == Walk(fs, <<>>, join(real_path_of(before.current_dir), arg))

\* C10: REST N answered 350 sets the restart offset to N; a RETR by a user who
\* may read, of an existing file of size S, at restart offset N: with N > 0 and
\* N >= S it is answered 550, sends nothing and resets rest_offset to 0;
\* otherwise, once the data connection opens, the bytes sent are file[N..S]
\* (a prefix of them when the copy breaks off).
C10_RestThenRetr ==
  \A s \in SessionIds :
    LET w == wire[s]
        N == w.before.rest_offset
    IN /\ (w.command = "Rest" /\ HasCode(w.replies, 350))
            => (parse(w.arg) # None /\ session[s].rest_offset = parse(w.arg)[1])
       /\ (/\ w.command = "Retrive" /\ w.before.authorized /\ w.arg # <<>>
           /\ PermissionOf(w.before.username) \in {"Read", "All"}
           /\ RetrTarget(w.before, w.arg) # None
           /\ RetrTarget(w.before, w.arg)[1] \in DOMAIN fs.files)
            => LET file == fs.files[RetrTarget(w.before, w.arg)[1]]
                   S == Len(file)
               IN IF N > 0 /\ N >= S
                    THEN /\ Codes(w.replies) = <<550>>
                         /\ w.sent = <<>> /\ ~w.opened
                         /\ session[s].rest_offset = 0
                    ELSE /\ (w.opened /\ w.result = "Ok")
                              => (w.sent = SubSeq(file, N + 1, S)
                                  /\ Codes(w.replies) = <<150, 226>>)
                         /\ w.opened => IsPrefix(w.sent, SubSeq(file, N + 1, S))
                         /\ ~w.opened => (Codes(w.replies) = <<425>> /\ w.sent = <<>>)

\* REST 1, then a RETR of the two-byte file f that delivers its second byte.
C10_Witness ==
  \E s \in SessionIds :
    /\ wire[s].command = "Retrive" /\ wire[s].arg = <<"f">>
    /\ wire[s].before.rest_offset = 1 /\ wire[s].before.current_dir = <<>>
    /\ wire[s].sent = <<2>> /\ Codes(wire[s].replies) = <<150, 226>>

\* A RETR turn that got as far as open_data_connection: a user who may read
\* names an existing file and the restart offset is accepted.
RetrReachesOpen(s) ==
  LET w == wire[s] IN
  /\ w.command = "Retrive" /\ w.before.authorized /\ w.arg # <<>>
  /\ PermissionOf(w.before.username) \in {"Read", "All"}
  /\ RetrTarget(w.before, w.arg) # None
  /\ RetrTarget(w.before, w.arg)[1] \in DOMAIN fs.files
  /\ ~(w.before.rest_offset > 0
       /\ w.before.rest_offset >= Len(fs.files[RetrTarget(w.before, w.arg)[1]]))

\* C11: when RETR cannot open the data connection (nothing is armed, or the
\* dial or accept fails or times out) the only reply is 425, no 150 or 226 is
\* written and no byte is sent, rest_offset keeps its value and the session
\* goes on to the next command.
C11_RetrOpenFailure425 ==
  \A s \in SessionIds :
    RetrReachesOpen(s) =>
      /\ (wire[s].before.active_addr = None /\ wire[s].before.passive_listener = None)
           => ~wire[s].opened
      /\ ~wire[s].opened =>
           /\ Codes(wire[s].replies) = <<425>>
           /\ wire[s].sent = <<>>
           /\ session[s].rest_offset = wire[s].before.rest_offset
           /\ task[s] = "Running" /\ wire[s].result = "Ok"

\* RETR f at restart offset 1 with a PORT target armed whose dial fails.
C11_Witness ==
  \E s \in SessionIds :
    /\ RetrReachesOpen(s) /\ ~wire[s].opened
    /\ wire[s].before.active_addr # None /\ wire[s].before.rest_offset = 1
    /\ Codes(wire[s].replies) = <<425>>

\* C12: a user tagged All stores name x with the uploaded bytes B (answer 226);
\* after re-arming the data channel, in the same directory and at restart
\* offset 0, a RETR of x that completes (150, 226) sends exactly B.
C12_StoreThenRetrive ==
  \A s \in SessionIds :
    LET w == wire[s] IN
    (/\ w.command = "Retrive" /\ hist[s].stor # None
     /\ PermissionOf(w.before.username) = "All"
     /\ w.arg = hist[s].stor[1].arg /\ w.before.current_dir = hist[s].stor[1].cwd
     /\ w.before.rest_offset = 0
     /\ w.opened /\ HasCode(w.replies, 226))
      => w.sent = hist[s].stor[1].bytes

\* alice uploads 7 8 9 over the two-byte file f and reads the three bytes back.
C12_Witness ==
  \E s \in SessionIds :
    /\ wire[s].command = "Retrive" /\ hist[s].stor # None
    /\ wire[s].arg = <<"f">> /\ hist[s].stor[1].arg = <<"f">>
    /\ wire[s].before.username = <<"alice">>
    /\ wire[s].before.current_dir = <<>> /\ hist[s].stor[1].cwd = <<>>
    /\ wire[s].sent = <<7, 8, 9>> /\ HasCode(wire[s].replies, 226)

\* C13 as stated: for an authenticated session at "/", CWD .. is answered 250
\* and the working directory stays "/", which is what a following PWD reports.
C13_CwdDotDotAtRootStays ==
  \A s \in SessionIds :
    (/\ wire[s].command = "ChangeDir" /\ wire[s].before.authorized
     /\ wire[s].before.current_dir = <<>> /\ wire[s].arg = <<"..">>)
      => /\ Codes(wire[s].replies) = <<250>>
         /\ session[s].current_dir = <<>>
         /\ HandleWorkingDir(session[s], fs).replies[1].val = <<>>

\* The physical path resolves to a directory of the filesystem.
NamesDirectory(path) ==
  LET node == Walk(fs, <<>>, path) IN node # None /\ node[1] \in fs.dirs

\* C14: CWD sets current_dir only when the physical path it resolves exists and
\* is a directory, and then answers 250; for a missing path or one that is no
\* directory it answers 550 and leaves current_dir, rest_offset and the data
\* channel arming as they were.
C14_CwdOnlyIntoDirectories ==
  \A s \in SessionIds :
    LET w == wire[s]
        target == join(w.before.current_dir, w.arg)
    IN w.command = "ChangeDir" =>
         /\ session[s].current_dir # w.before.current_dir =>
              /\ Codes(w.replies) = <<250>> /\ w.before.authorized /\ w.arg # <<>>
              /\ NamesDirectory(real_path_of(target))
         /\ (w.before.authorized /\ w.arg # <<>>) =>
              IF NamesDirectory(real_path_of(target))
                THEN /\ Codes(w.replies) = <<250>>
                     /\ session[s] = [w.before EXCEPT !.current_dir = target]
                ELSE /\ Codes(w.replies) = <<550>>
                     /\ session[s] = w.before

\* CWD f, where f is a regular file, at restart offset 1 with PASV armed.
C14_Witness ==
  \E s \in SessionIds :
    /\ wire[s].command = "ChangeDir" /\ wire[s].arg = <<"f">>
    /\ wire[s].before.rest_offset = 1 /\ wire[s].before.passive_listener # None
    /\ Codes(wire[s].replies) = <<550>> /\ task[s] = "Running"

\* C15 as stated: a read that holds nothing but the line end and whitespace is
\* skipped: no reply is written for it, the session is as before and the loop
\* reads again.
C15_EmptyLineSkipped ==
  \A s \in SessionIds :
    (wire[s].data # <<>> /\ TrimEnd(wire[s].data) = <<>>)
      => /\ wire[s].replies = <<>>
         /\ session[s] = wire[s].before
         /\ task[s] = "Running"

\* The level of an entry of the acceptor's log.
Level ==
  [entry \in {"none", "info: Session was closed by user.", "error: Session failed"} |->
     IF entry = "info: Session was closed by user." THEN "info"
     ELSE IF entry = "error: Session failed" THEN "error" ELSE "none"]

\* C16: QUIT, whether or not a user name or a login is known, is answered by
\* the single reply 221 Bye!; the session ends with ClosedByQuit with the QUIT
\* as its last turn, and the acceptor's task logs the end at info level.
C16_QuitClosesCleanly ==
  \A s \in SessionIds :
    /\ wire[s].command = "Quit" =>
         /\ wire[s].replies = <<Reply(221, "Bye!")>>
         /\ session[s] = wire[s].before
         /\ task[s] = "ClosedByQuit"
         /\ Level[log[s]] = "info"
    /\ task[s] = "ClosedByQuit" => wire[s].command = "Quit"

\* QUIT after USER bob was answered 331 and before any PASS.
C16_Witness ==
  \E s \in SessionIds :
    /\ wire[s].command = "Quit" /\ task[s] = "ClosedByQuit"
    /\ wire[s].before.username = <<"bob">> /\ ~wire[s].before.authorized

\* C17 as stated: a read of 0 bytes ends the session with Disconnected, which
\* is logged at info level as a clean end, not at error level as a failure.
C17_DisconnectLoggedInfo ==
  \A s \in SessionIds :
    task[s] = "Disconnected" => Level[log[s]] = "info"

\* C20 as stated: after a LIST, RETR or STOR whose data connection opened,
\* neither active_addr nor passive_listener is set, so that the next transfer
\* command finds nothing armed unless a PORT or PASV comes first.
C20_OpeningDisarms ==
  \A s \in SessionIds :
    (wire[s].command \in {"List", "Retrive", "Store"} /\ wire[s].opened)
      => /\ session[s].active_addr = None
         /\ session[s].passive_listener = None
         /\ ~open_data_connection(session[s], "ok").ok

\* C18: within a session the commands are serialized: a command is read only
\* when the reply before it on the control connection is the final reply of the
\* command before (after any data transfer that command started), so the
\* transcript lists reads, transfers and replies command by command.
C18_CommandsSerialized ==
  \A s \in SessionIds :
    LET ev == ctl[s].events IN
    \A i \in 1..Len(ev) :
      /\ i > 1 => ev[i - 1].n <= ev[i].n
      /\ ev[i].kind = "read" =>
           /\ i > 1 /\ ev[i - 1].kind = "reply" /\ ev[i - 1].final
           /\ ev[i - 1].n = ev[i].n - 1
      /\ ev[i].kind \in {"reply", "data"} =>
           /\ i > 1 \/ ev[i].n = 0
           /\ i > 1 => (ev[i - 1].n = ev[i].n \/ ev[i].n = 0) /\ ~ev[i - 1].final

\* The client has written PASV, RETR f and PWD by the time RETR's file is
\* being copied; the transcript ends 150, data, 226, read, 257.
C18_Witness ==
  \E s \in SessionIds :
    LET ev == ctl[s].events IN
    /\ Len(ev) >= 5
    /\ [i \in 1..5 |-> ev[Len(ev) - 5 + i].code] = <<150, 0, 226, 0, 257>>
    /\ ev[Len(ev) - 3].kind = "data" /\ ev[Len(ev) - 1].kind = "read"

\* What a RETR or a CWD leaves in the session when the filesystem holds only
\* what the session's own uploads made of it.
AloneOutcome(s) ==
  IF wire[s].command = "Retrive"
    THEN HandleRetrive(wire[s].before, WithAdded(hist[s].own), wire[s].arg, "ok", None).sess
    ELSE HandleChangeDir(wire[s].before, WithAdded(hist[s].own), wire[s].arg).sess

\* C19 as stated: under every interleaving a session's authorized flag,
\* username, current_dir, rest_offset and arming depend only on its own command
\* sequence: a RETR or CWD leaves them as it would had no other session run.
C19_FieldsFromOwnCommandsOnly ==
  \A s \in SessionIds :
    wire[s].command \in {"Retrive", "ChangeDir"} =>
      /\ session[s].authorized = AloneOutcome(s).authorized
      /\ session[s].username = AloneOutcome(s).username
      /\ session[s].current_dir = AloneOutcome(s).current_dir
      /\ session[s].rest_offset = AloneOutcome(s).rest_offset

\* Session s changed in the step: its fields, its task's state, what its
\* connection showed or what its task logged.
Changed(s) ==
  <<session[s], task[s], log[s], wire[s], hist[s]>>'
    # <<session[s], task[s], log[s], wire[s], hist[s]>>

\* C19 as amended: under every interleaving a step is a step of one session
\* and changes no field, task state, log entry or connection of another: a
\* session's fields are written by its own commands only, and a session that
\* fails or ends leaves the others and the acceptor as they were.
C19_SessionsIsolated ==
  [][\A s, t \in SessionIds : s # t => ~(Changed(s) /\ Changed(t))]_vars

\* Session 1 has ended in a panic (REST abc) and session 2 is logged in,
\* running, with a passive listener just armed.
C19_Witness ==
  /\ task[1] = "Panic" /\ task[2] = "Running"
  /\ session[2].authorized /\ wire[2].command = "Passive"
  /\ session[2].passive_listener # None /\ session[1].passive_listener = None

\* C21 as stated: the commands dispatched are the lines the client sent, one
\* command per line however the bytes fall into reads: every read that is
\* dispatched takes exactly one line off the connection, and the request in
\* hand is the verb and argument of one line.
C21_OneCommandPerLine ==
  \A s \in SessionIds :
    /\ ctl[s].n + Len(ctl[s].inbox) = ctl[s].sends
    /\ ctl[s].pc = "handle" => ctl[s].req \in {Parsed(line) : line \in LoopData}

\* C22: a LIST (NLST, MLST, MLSD) of a logged-in user that cannot open the data
\* connection, with nothing armed or with the dial or accept failing, writes no
\* reply at all (no 150, no 226, no error reply) and ends the session with
\* DataConnectionFailed, logged as a failure.
C22_ListOpenFailureEndsSession ==
  \A s \in SessionIds :
    (wire[s].command = "List" /\ wire[s].before.authorized) =>
      /\ (wire[s].before.active_addr = None /\ wire[s].before.passive_listener = None)
           => ~wire[s].opened
      /\ ~wire[s].opened =>
           /\ wire[s].replies = <<>> /\ wire[s].listed = {}
           /\ wire[s].result = "DataConnectionFailed"
           /\ task[s] = "DataConnectionFailed"
           /\ Level[log[s]] = "error"

\* NLST by a logged-in user who sent neither PORT nor PASV.
C22_Witness ==
  \E s \in SessionIds :
    /\ wire[s].command = "List" /\ wire[s].data = Line("NLST", <<>>)
    /\ wire[s].before.authorized
    /\ wire[s].before.active_addr = None /\ wire[s].before.passive_listener = None
    /\ task[s] = "DataConnectionFailed"

\* C23 as stated: a failed attempt to open the data connection consumes the
\* arming: after a RETR answered 425 the target or listener that was tried is
\* no longer set, and nothing is armed, so that a retry of the transfer opens
\* no data connection until a new PORT or PASV.
C23_FailedOpenDisarms ==
  \A s \in SessionIds :
    (wire[s].command = "Retrive" /\ Codes(wire[s].replies) = <<425>>) =>
      /\ wire[s].before.active_addr # None => session[s].active_addr = None
      /\ wire[s].before.active_addr = None => session[s].passive_listener = None
      /\ ~open_data_connection(session[s], "ok").ok

\* The first half of C23 alone: the slot that was tried is cleared.
TriedSlotCleared ==
  \A s \in SessionIds :
    (wire[s].command = "Retrive" /\ Codes(wire[s].replies) = <<425>>) =>
      /\ wire[s].before.active_addr # None => session[s].active_addr = None
      /\ wire[s].before.active_addr = None => session[s].passive_listener = None

\* The node a STOR of arg names from the session's directory, in the
\* filesystem as the turn left it.
StorTarget(before, arg) == Walk(fs, <<>>, join(real_path_of(before.current_dir), arg))

\* A STOR turn of a user who may write, with a file name that is allowed.
PermittedStore(w) ==
  /\ w.command = "Store" /\ w.before.authorized
  /\ PermissionOf(w.before.username) \in {"Write", "All"}
  /\ w.arg # <<>> /\ w.arg \notin {<<".">>, <<"..">>}

\* C24: STOR makes the missing parent directories and creates or truncates
\* the target before it opens the data channel: a permitted STOR with nothing
\* armed, or whose data connection fails, leaves the target an empty file in an
\* existing directory, writes no reply and ends the session with
\* DataConnectionFailed.
C24_StoreTruncatesBeforeOpen ==
  \A s \in SessionIds :
    LET w == wire[s] IN
    (PermittedStore(w) /\ w.result # "FileSystemError") =>
      /\ (w.before.active_addr = None /\ w.before.passive_listener = None) => ~w.opened
      /\ ~w.opened =>
           /\ w.replies = <<>>
           /\ w.result = "DataConnectionFailed" /\ task[s] = "DataConnectionFailed"
           /\ StorTarget(w.before, w.arg) # None
           /\ StorTarget(w.before, w.arg)[1] \in DOMAIN fs.files
           /\ fs.files[StorTarget(w.before, w.arg)[1]] = <<>>
           /\ SubSeq(StorTarget(w.before, w.arg)[1], 1,
                     Len(StorTarget(w.before, w.arg)[1]) - 1) \in fs.dirs

\* alice, with nothing armed, sends STOR f: the two bytes of f are gone.
C24_Witness ==
  \E s \in SessionIds :
    /\ PermittedStore(wire[s]) /\ wire[s].arg = <<"f">>
    /\ wire[s].before.current_dir = <<>>
    /\ wire[s].before.active_addr = None /\ wire[s].before.passive_listener = None
    /\ fs.files[<<<<"srv">>, <<"f">>>>] = <<>> /\ InitFs.files[<<<<"srv">>, <<"f">>>>] # <<>>
    /\ task[s] = "DataConnectionFailed"

\* carol, with nothing armed, sends STOR d/n: the directory d and the empty
\* file d/n exist afterwards.
C24_WitnessNewDirectory ==
  \E s \in SessionIds :
    /\ PermittedStore(wire[s]) /\ wire[s].arg = <<"d", "/", "n">>
    /\ <<<<"srv">>, <<"d">>>> \in fs.dirs /\ <<<<"srv">>, <<"d">>>> \notin InitFs.dirs
    /\ task[s] = "DataConnectionFailed"

\* C25: authentication is sticky. A turn that starts authorized ends
\* authorized with the same username; a USER sent then is answered 230 alone,
\* and a PASS with a wrong password is answered 530 alone.
C25_AuthenticationIsSticky ==
  \A s \in SessionIds :
    LET w == wire[s] IN
    w.before.authorized =>
      /\ session[s].authorized
      /\ session[s].username = w.before.username
      /\ w.command = "User" => Codes(w.replies) = <<230>>
      /\ (w.command = "Password" /\ w.arg # <<>>
            /\ ~check_password(w.before.username, w.arg)) => Codes(w.replies) = <<530>>

\* Logged in, the client names another user that exists.
C25_Witness ==
  \E s \in SessionIds :
    /\ wire[s].command = "User" /\ wire[s].before.authorized
    /\ check_user(wire[s].arg) /\ wire[s].arg # wire[s].before.username
    /\ Codes(wire[s].replies) = <<230>>

\* Logged in, the client sends a wrong password.
C25_WitnessWrongPassword ==
  \E s \in SessionIds :
    /\ wire[s].command = "Password" /\ wire[s].before.authorized
    /\ wire[s].arg # <<>> /\ ~check_password(wire[s].before.username, wire[s].arg)
    /\ Codes(wire[s].replies) = <<530>> /\ session[s].authorized

\* C26: a rejected USER leaves the recorded username. Before login an empty
\* USER is answered 501 and an unknown one 530, and neither changes the
\* username; when the last USER was rejected and only PASS followed it, a PASS
\* with the password of the user of the last 331 is answered 230 and
\* authorizes as that user.
C26_RejectedUserKeepsUsername ==
  \A s \in SessionIds :
    LET w == wire[s] IN
    /\ (w.command = "User" /\ ~w.before.authorized) =>
         /\ w.arg = <<>> => Codes(w.replies) = <<501>>
         /\ (w.arg # <<>> /\ ~check_user(w.arg)) => Codes(w.replies) = <<530>>
         /\ Codes(w.replies) \in {<<501>>, <<530>>} =>
              session[s].username = w.before.username
    /\ (/\ w.command = "Password" /\ hist[s].rejected /\ hist[s].user331 # <<>>
        /\ check_password(hist[s].user331, w.arg)) =>
         /\ Codes(w.replies) = <<230>>
         /\ session[s].authorized
         /\ session[s].username = hist[s].user331

\* USER alice (331), USER mallory (530), PASS pa: logged in as alice.
C26_Witness ==
  \E s \in SessionIds :
    /\ wire[s].command = "Password" /\ hist[s].rejected
    /\ ~wire[s].before.authorized
    /\ hist[s].user331 = <<"alice">> /\ wire[s].arg = <<"pa">>
    /\ session[s].authorized /\ session[s].username = <<"alice">>

\* USER alice (331), then an empty USER (501): alice is still recorded.
C26_WitnessEmptyUser ==
  \E s \in SessionIds :
    /\ wire[s].command = "User" /\ wire[s].arg = <<>> /\ hist[s].rejected
    /\ Codes(wire[s].replies) = <<501>> /\ session[s].username = <<"alice">>

====
